---- MODULE Spec2Model ----
(***************************************************************************)
(* Model of org/mozilla/jss/pkcs11/PK11Signature.c: the JNI bridge that    *)
(* lets a managed PK11Signature object own a native signing/verification   *)
(* context (and, for RSA-PSS, the arena backing its AlgorithmID) through a *)
(* SigContextProxy.                                                        *)
(*                                                                         *)
(* Native memory is modelled as three growing tables (contexts, arenas,    *)
(* proxy records); a pointer is an index into its table and NULL is 0.     *)
(* Each JNI entry point is one action; the helper functions it calls are   *)
(* operators on a heap record h = [ctxs, arenas, recs].                    *)
(***************************************************************************)
EXTENDS Integers, Sequences, FiniteSets, TLC

(* ------------------------------ bounds -------------------------------- *)
MaxAlloc == 2      \* native objects of each sort allocated in one behaviour
MaxArr == 2        \* longest managed byte array handed to update
MaxAcc == 2        \* most bytes a context accumulates
MaxRelease == 2    \* releaseNativeResources calls made on one proxy

(* --------------------------- program constants ------------------------- *)
NULL == 0
MaxJint == 2147483647                \* jint is a 32-bit signed integer
MinJint == -MaxJint - 1

SGN_CONTEXT == "SGN_CONTEXT"
VFY_CONTEXT == "VFY_CONTEXT"

SEC_OID_PKCS1_RSA_PSS_SIGNATURE == "RSA_PSS"
SEC_OID_PKCS1_RSA_ENCRYPTION == "RSA_PKCS1"
SEC_OID_UNKNOWN == "UNKNOWN"
SEC_OID_SHA256 == "SHA256"
Algorithms == {SEC_OID_PKCS1_RSA_PSS_SIGNATURE, SEC_OID_PKCS1_RSA_ENCRYPTION}
Digests == {SEC_OID_UNKNOWN, SEC_OID_SHA256}

NoException == "none"
OUT_OF_MEMORY_ERROR == "OutOfMemoryError"
TOKEN_EXCEPTION == "TokenException"
SIGNATURE_EXCEPTION == "SignatureException"
ARRAY_INDEX_OUT_OF_BOUNDS_EXCEPTION == "ArrayIndexOutOfBoundsException"

\* The managed byte arrays handed in: one of each length, bytes all zero.
ZeroArrays == {[i \in 1..n |-> 0] : n \in 0..MaxArr}
Jints == ((-1)..(MaxArr + 1)) \cup {MaxJint}

(* ------------------------------- state --------------------------------- *)
VARIABLES
    algorithm,        \* PK11Signature.algorithm (signature algorithm OID)
    digestAlgorithm,  \* PK11Signature.digestAlgorithm (may be unknown)
    sigContext,       \* PK11Signature.sigContext: a proxy object or NULL
    ctxs,             \* native SGNContext / VFYContext objects
    arenas,           \* native PRArenaPool objects
    recs,             \* SigContextProxyStr records (PR_Malloc'ed)
    exc,              \* exception pending when the last call returned
    ret,              \* what the last call did and returned
    stream            \* the caller's script when it signs one message twice

vars ==
    <<algorithm, digestAlgorithm, sigContext, ctxs, arenas, recs, exc, ret,
      stream>>

Heap == [ctxs |-> ctxs, arenas |-> arenas, recs |-> recs]

(* -------------------- native library (NSS / NSPR) ---------------------- *)

\* The algorithm a context is created with: the signature algorithm and,
\* under RSA-PSS, the digest the AlgorithmID was built from.
ContextAlg(signingAlg, digestAlg) ==
    [sig |-> signingAlg,
     digest |-> IF signingAlg = SEC_OID_PKCS1_RSA_PSS_SIGNATURE
                THEN digestAlg ELSE SEC_OID_UNKNOWN]

AlgSnapshots == {ContextAlg(a, d) : a \in Algorithms, d \in Digests}

\* SGN_NewContext / SGN_NewContextWithAlgorithmID / VFY_CreateContext /
\* VFY_CreateContextWithAlgorithmID: a fresh context, not yet begun, that
\* keeps the algorithm it was given.  The context created from an
\* AlgorithmID references the arena that backs it.
NewContext(h, type, key, arena, alg) ==
    [h EXCEPT !.ctxs = Append(@, [state |-> "created", type |-> type,
                                  key |-> key, arena |-> arena, alg |-> alg,
                                  acc |-> <<>>, begun |-> FALSE,
                                  destroys |-> 0])]

\* SGN_Begin / VFY_Begin
BeginContext(h, c) ==
    [h EXCEPT !.ctxs[c].state = "begun", !.ctxs[c].begun = TRUE]

\* SGN_DestroyContext / VFY_DestroyContext(cx, PR_TRUE): NULL is ignored;
\* the accumulator goes with the context.
DestroyContext(h, c) ==
    IF c = NULL THEN h
    ELSE [h EXCEPT !.ctxs[c].state = "destroyed", !.ctxs[c].acc = <<>>,
                   !.ctxs[c].destroys = @ + 1]

\* PORT_NewArena
NewArena(h) ==
    [h EXCEPT !.arenas = Append(@, [state |-> "live", frees |-> 0,
                                    early |-> FALSE])]

\* The contexts not yet destroyed whose AlgorithmID lives in arena a.
ContextsOn(h, a) ==
    {c \in 1..Len(h.ctxs) :
        h.ctxs[c].arena = a /\ h.ctxs[c].state # "destroyed"}

\* PORT_FreeArena(arena, PR_TRUE): NULL is ignored.  early remembers a free
\* made while a context on the arena was not yet destroyed.
FreeArena(h, a) ==
    IF a = NULL THEN h
    ELSE [h EXCEPT !.arenas[a].state = "freed", !.arenas[a].frees = @ + 1,
                   !.arenas[a].early = @ \/ ContextsOn(h, a) # {}]

\* PR_Malloc(sizeof(SigContextProxy)) followed by the three field stores.
NewRec(h, ctxt, type, arena) ==
    [h EXCEPT !.recs = Append(@, [state |-> "live", ctxt |-> ctxt,
                                  type |-> type, arena |-> arena,
                                  frees |-> 0, object |-> FALSE])]

\* PR_Free(proxy)
FreeRec(h, p) ==
    [h EXCEPT !.recs[p].state = "freed", !.recs[p].frees = @ + 1]

(* ----------------------------- SigContextProxy ------------------------- *)

WrapFaults == {"malloc", "findClass", "getMethodID", "newObject"}

\* JSS_PK11_wrapSigContextProxy as it would be without "*ctxt = NULL": on
\* failure the caller still holds the context the cleanup destroyed.
JSS_PK11_wrapSigContextProxy_KeepsCtxt(h, ctxt, type, arena, fault) ==
    LET proxy == IF fault = "malloc" THEN NULL ELSE Len(h.recs) + 1
        h1 == IF proxy = NULL THEN h ELSE NewRec(h, ctxt, type, arena)
        Context == IF fault \in WrapFaults THEN NULL ELSE proxy
        h2 == IF proxy # NULL THEN FreeRec(h1, proxy) ELSE h1
        h3 == DestroyContext(h2, ctxt)
        h4 == FreeArena(h3, arena)
    IN  [h |-> IF Context = NULL THEN h4
               ELSE [h1 EXCEPT !.recs[proxy].object = TRUE],
         ctxt |-> ctxt,
         arena |-> NULL,
         Context |-> Context,
         exc |-> IF Context = NULL THEN OUT_OF_MEMORY_ERROR ELSE NoException]

\* JSS_PK11_wrapSigContextProxy as it would be without "*arena = NULL": the
\* caller keeps its arena reference beside the one the record took.
JSS_PK11_wrapSigContextProxy_KeepsArena(h, ctxt, type, arena, fault) ==
    LET proxy == IF fault = "malloc" THEN NULL ELSE Len(h.recs) + 1
        h1 == IF proxy = NULL THEN h ELSE NewRec(h, ctxt, type, arena)
        Context == IF fault \in WrapFaults THEN NULL ELSE proxy
        h2 == IF proxy # NULL THEN FreeRec(h1, proxy) ELSE h1
        h3 == DestroyContext(h2, ctxt)
        h4 == FreeArena(h3, arena)
    IN  [h |-> IF Context = NULL THEN h4
               ELSE [h1 EXCEPT !.recs[proxy].object = TRUE],
         ctxt |-> NULL,
         arena |-> IF Context = NULL THEN NULL ELSE arena,
         Context |-> Context,
         exc |-> IF Context = NULL THEN OUT_OF_MEMORY_ERROR ELSE NoException]

\* JSS_PK11_wrapSigContextProxy(env, &ctxt, type, &arena).  The byte array
\* made by JSS_ptrToByteArray is taken to be made.  The result holds
\* the heap, the caller's two pointers as the function leaves them, the
\* returned object (a proxy, or NULL) and the exception thrown.
JSS_PK11_wrapSigContextProxy(h, ctxt, type, arena, fault) ==
    LET proxy == IF fault = "malloc" THEN NULL ELSE Len(h.recs) + 1
        h1 == IF proxy = NULL THEN h ELSE NewRec(h, ctxt, type, arena)
        Context == IF fault \in WrapFaults THEN NULL ELSE proxy
        \* finish: Context == NULL, "didn't work, so free resources"
        h2 == IF proxy # NULL THEN FreeRec(h1, proxy) ELSE h1
        h3 == DestroyContext(h2, ctxt)
        h4 == FreeArena(h3, arena)
    IN  [h |-> IF Context = NULL THEN h4
               ELSE [h1 EXCEPT !.recs[proxy].object = TRUE],
         ctxt |-> NULL,
         arena |-> NULL,
         Context |-> Context,
         exc |-> IF Context = NULL THEN OUT_OF_MEMORY_ERROR ELSE NoException]

\* A load of one field of a proxy record.  Loading from a record that was
\* already PR_Free'd is undefined: the allocator may have left the old
\* value in place (stale) or overwritten it (read as NULL).
LoadField(h, p, field, stale) ==
    IF h.recs[p].state = "live" \/ stale THEN h.recs[p][field] ELSE NULL

\* Whether dereferencing record p touches freed memory.
Dangling(h, p) == p # NULL /\ h.recs[p].state = "freed"

\* JSS_PK11_getSigContext(env, proxy, &ctxt, &type).  JSS_getPtrFromProxy
\* returns the record address stored in the proxy object, which nothing in
\* this file ever clears; ptrFault is its own failure.
JSS_PK11_getSigContext(h, proxy, ptrFault, stale) ==
    IF ptrFault
    THEN [ok |-> FALSE, ctxt |-> NULL, type |-> SGN_CONTEXT,
          exc |-> OUT_OF_MEMORY_ERROR, readFreed |-> FALSE]
    ELSE LET ctxtProxy == proxy
             c == LoadField(h, ctxtProxy, "ctxt", stale)
         IN  IF ctxtProxy = NULL \/ c = NULL
             THEN [ok |-> FALSE, ctxt |-> NULL, type |-> SGN_CONTEXT,
                   exc |-> SIGNATURE_EXCEPTION,
                   readFreed |-> Dangling(h, ctxtProxy)]
             ELSE [ok |-> TRUE, ctxt |-> c, type |-> h.recs[ctxtProxy].type,
                   exc |-> NoException, readFreed |-> Dangling(h, ctxtProxy)]

\* getSigContext(env, sig, &ctxt, &type): reads PK11Signature.sigContext.
getSigContext(h, sig, fieldFault, ptrFault, stale) ==
    IF fieldFault
    THEN [ok |-> FALSE, ctxt |-> NULL, type |-> SGN_CONTEXT,
          exc |-> OUT_OF_MEMORY_ERROR, readFreed |-> FALSE]
    ELSE IF sig = NULL
    THEN [ok |-> FALSE, ctxt |-> NULL, type |-> SGN_CONTEXT,
          exc |-> TOKEN_EXCEPTION, readFreed |-> FALSE]
    ELSE JSS_PK11_getSigContext(h, sig, ptrFault, stale)

\* The release as it would be with PORT_FreeArena ahead of the destroy.
ReleaseRecord_FreesArenaFirst(h, proxy, stale) ==
    LET c == LoadField(h, proxy, "ctxt", stale)
        a == LoadField(h, proxy, "arena", stale)
        h1 == FreeArena(h, a)
        h2 == DestroyContext(h1, c)
        h3 == [h2 EXCEPT !.recs[proxy].arena = NULL]
    IN  FreeRec(h3, proxy)

\* Body of SigContextProxy.releaseNativeResources once the record address
\* has been retrieved.
ReleaseRecord(h, proxy, stale) ==
    LET c == LoadField(h, proxy, "ctxt", stale)
        a == LoadField(h, proxy, "arena", stale)
        h1 == DestroyContext(h, c)
        h2 == FreeArena(h1, a)
        h3 == [h2 EXCEPT !.recs[proxy].arena = NULL]
    IN  FreeRec(h3, proxy)

(* ------------------------ RSA-PSS parameter builder -------------------- *)

SECSuccess == "SECSuccess"
SECFailure == "SECFailure"

NoAlgorithmID == [arena |-> NULL, digest |-> SEC_OID_UNKNOWN, key |-> "none",
                  bound |-> FALSE]

PssFaults == {"pssAlloc", "pssParams", "pssSetAlg"}

\* getRSAPSSParamsAndSigningAlg(env, this, arena, &alg, privk): alg is the
\* value the caller's output pointer holds when the function returns.
getRSAPSSParamsAndSigningAlg(arena, digestAlg, privk, fault) ==
    LET signAlg == [arena |-> arena, digest |-> digestAlg, key |-> privk,
                    bound |-> FALSE]
    IN  IF fault = "pssAlloc"
        THEN [rv |-> SECFailure, alg |-> NoAlgorithmID,
              exc |-> OUT_OF_MEMORY_ERROR]
        ELSE IF fault = "pssParams"
        THEN [rv |-> SECFailure, alg |-> NoAlgorithmID,
              exc |-> TOKEN_EXCEPTION]
        ELSE IF fault = "pssSetAlg"
        THEN [rv |-> SECFailure, alg |-> signAlg, exc |-> TOKEN_EXCEPTION]
        ELSE [rv |-> SECSuccess, alg |-> [signAlg EXCEPT !.bound = TRUE],
              exc |-> NoException]

(* ----------------------------- context factory ------------------------- *)

\* setSigContext(env, sig, context): the new value of the sigContext field.
\* When the field lookup fails the exception is cleared and nothing is set.
setSigContext(sig, context, fieldFault) ==
    IF fieldFault THEN sig ELSE context

\* The locals of initSigContext / initVfyContext on arrival at "finish".
\* made and madeArena remember what this call allocated.
Locals(h, ctxt, arena, contextProxy, e, store, made, madeArena, privk, signAlg) ==
    [h |-> h, ctxt |-> ctxt, arena |-> arena, contextProxy |-> contextProxy,
     exc |-> e, store |-> store, made |-> made, madeArena |-> madeArena,
     privk |-> privk, signAlg |-> signAlg]

\* initSigContext as it would be if the result of SGN_Begin went unchecked.
SigSteps_IgnoresBegin(h, signingAlg, digestAlg, fault) ==
    IF fault = "key"
    THEN Locals(h, NULL, NULL, NULL, TOKEN_EXCEPTION, FALSE, NULL, NULL, NULL,
                    NoAlgorithmID)
    ELSE
    LET pss == signingAlg = SEC_OID_PKCS1_RSA_PSS_SIGNATURE
        h1 == IF pss /\ fault # "arena" THEN NewArena(h) ELSE h
        arena == IF pss /\ fault # "arena" THEN Len(h1.arenas) ELSE NULL
        r == getRSAPSSParamsAndSigningAlg(arena, digestAlg, "privk", fault)
        signAlg == IF pss THEN r.alg ELSE NoAlgorithmID
        h2 == NewContext(h1, SGN_CONTEXT, "privk", arena,
                         ContextAlg(signingAlg, digestAlg))
        ctxt == Len(h2.ctxs)
        h3 == IF fault = "begin" THEN h2 ELSE BeginContext(h2, ctxt)
        w == JSS_PK11_wrapSigContextProxy(h3, ctxt, SGN_CONTEXT, arena, fault)
    IN  IF pss /\ fault = "arena"
        THEN Locals(h, NULL, NULL, NULL, OUT_OF_MEMORY_ERROR, FALSE,
                    NULL, NULL, NULL, NoAlgorithmID)
        ELSE IF pss /\ r.rv = SECFailure
        THEN Locals(h1, NULL, arena, NULL, r.exc, FALSE, NULL, arena, NULL,
                    signAlg)
        ELSE IF fault = "newContext"
        THEN Locals(h1, NULL, arena, NULL, TOKEN_EXCEPTION, FALSE,
                    NULL, arena, NULL, signAlg)
        ELSE IF w.Context = NULL
        THEN Locals(w.h, w.ctxt, w.arena, NULL, w.exc, FALSE,
                    ctxt, arena, NULL, signAlg)
        ELSE Locals(w.h, w.ctxt, w.arena, w.Context, NoException, TRUE,
                    ctxt, arena, NULL, signAlg)

\* initSigContext, from entry to the label finish.
SigSteps(h, signingAlg, digestAlg, fault) ==
    IF fault = "key"
    THEN Locals(h, NULL, NULL, NULL, TOKEN_EXCEPTION, FALSE, NULL, NULL, NULL,
                    NoAlgorithmID)
    ELSE
    LET pss == signingAlg = SEC_OID_PKCS1_RSA_PSS_SIGNATURE
        h1 == IF pss /\ fault # "arena" THEN NewArena(h) ELSE h
        arena == IF pss /\ fault # "arena" THEN Len(h1.arenas) ELSE NULL
        r == getRSAPSSParamsAndSigningAlg(arena, digestAlg, "privk", fault)
        signAlg == IF pss THEN r.alg ELSE NoAlgorithmID
        h2 == NewContext(h1, SGN_CONTEXT, "privk", arena,
                         ContextAlg(signingAlg, digestAlg))
        ctxt == Len(h2.ctxs)
        h3 == BeginContext(h2, ctxt)
        w == JSS_PK11_wrapSigContextProxy(h3, ctxt, SGN_CONTEXT, arena, fault)
    IN  IF pss /\ fault = "arena"
        THEN Locals(h, NULL, NULL, NULL, OUT_OF_MEMORY_ERROR, FALSE,
                    NULL, NULL, NULL, NoAlgorithmID)
        ELSE IF pss /\ r.rv = SECFailure
        THEN Locals(h1, NULL, arena, NULL, r.exc, FALSE, NULL, arena, NULL,
                    signAlg)
        ELSE IF fault = "newContext"
        THEN Locals(h1, NULL, arena, NULL, TOKEN_EXCEPTION, FALSE,
                    NULL, arena, NULL, signAlg)
        ELSE IF fault = "begin"
        THEN Locals(h2, ctxt, arena, NULL, TOKEN_EXCEPTION, FALSE,
                    ctxt, arena, NULL, signAlg)
        ELSE IF w.Context = NULL
        THEN Locals(w.h, w.ctxt, w.arena, NULL, w.exc, FALSE,
                    ctxt, arena, NULL, signAlg)
        ELSE Locals(w.h, w.ctxt, w.arena, w.Context, NoException, TRUE,
                    ctxt, arena, NULL, signAlg)

\* initVfyContext as it would be if, under RSA-PSS, the context were created
\* with the public half of the placeholder key.
VfySteps_UsesPlaceholder(h, signingAlg, digestAlg, fault) ==
    IF fault = "key"
    THEN Locals(h, NULL, NULL, NULL, TOKEN_EXCEPTION, FALSE, NULL, NULL, NULL,
                    NoAlgorithmID)
    ELSE
    LET pss == signingAlg = SEC_OID_PKCS1_RSA_PSS_SIGNATURE
        privk == IF pss /\ fault # "tempKey" THEN 1 ELSE NULL
        h1 == IF pss /\ fault \notin {"tempKey", "arena"}
              THEN NewArena(h) ELSE h
        arena == IF pss /\ fault \notin {"tempKey", "arena"}
                 THEN Len(h1.arenas) ELSE NULL
        r == getRSAPSSParamsAndSigningAlg(arena, digestAlg, "placeholder",
                                          fault)
        signAlg == IF pss THEN r.alg ELSE NoAlgorithmID
        h2 == NewContext(h1, VFY_CONTEXT,
                         IF pss THEN "placeholder" ELSE "pubk", arena,
                         ContextAlg(signingAlg, digestAlg))
        ctxt == Len(h2.ctxs)
        h3 == BeginContext(h2, ctxt)
        w == JSS_PK11_wrapSigContextProxy(h3, ctxt, VFY_CONTEXT, arena, fault)
    IN  IF pss /\ fault = "tempKey"
        THEN Locals(h, NULL, NULL, NULL, TOKEN_EXCEPTION, FALSE,
                    NULL, NULL, privk, NoAlgorithmID)
        ELSE IF pss /\ fault = "arena"
        THEN Locals(h, NULL, NULL, NULL, OUT_OF_MEMORY_ERROR, FALSE,
                    NULL, NULL, privk, NoAlgorithmID)
        ELSE IF pss /\ r.rv = SECFailure
        THEN Locals(h1, NULL, arena, NULL, r.exc, FALSE, NULL, arena, privk,
                    signAlg)
        ELSE IF fault = "newContext"
        THEN Locals(h1, NULL, arena, NULL, TOKEN_EXCEPTION, FALSE,
                    NULL, arena, privk, signAlg)
        ELSE IF fault = "begin"
        THEN Locals(h2, ctxt, arena, NULL, TOKEN_EXCEPTION, FALSE,
                    ctxt, arena, privk, signAlg)
        ELSE IF w.Context = NULL
        THEN Locals(w.h, w.ctxt, w.arena, NULL, w.exc, FALSE,
                    ctxt, arena, privk, signAlg)
        ELSE Locals(w.h, w.ctxt, w.arena, w.Context, NoException, TRUE,
                    ctxt, arena, privk, signAlg)

\* initVfyContext, from entry to the label finish.  privk is the
\* placeholder private key (tempPubKey is created and destroyed with it).
VfySteps(h, signingAlg, digestAlg, fault) ==
    IF fault = "key"
    THEN Locals(h, NULL, NULL, NULL, TOKEN_EXCEPTION, FALSE, NULL, NULL, NULL,
                    NoAlgorithmID)
    ELSE
    LET pss == signingAlg = SEC_OID_PKCS1_RSA_PSS_SIGNATURE
        privk == IF pss /\ fault # "tempKey" THEN 1 ELSE NULL
        h1 == IF pss /\ fault \notin {"tempKey", "arena"}
              THEN NewArena(h) ELSE h
        arena == IF pss /\ fault \notin {"tempKey", "arena"}
                 THEN Len(h1.arenas) ELSE NULL
        r == getRSAPSSParamsAndSigningAlg(arena, digestAlg, "placeholder",
                                          fault)
        signAlg == IF pss THEN r.alg ELSE NoAlgorithmID
        h2 == NewContext(h1, VFY_CONTEXT, "pubk", arena,
                         ContextAlg(signingAlg, digestAlg))
        ctxt == Len(h2.ctxs)
        h3 == BeginContext(h2, ctxt)
        w == JSS_PK11_wrapSigContextProxy(h3, ctxt, VFY_CONTEXT, arena, fault)
    IN  IF pss /\ fault = "tempKey"
        THEN Locals(h, NULL, NULL, NULL, TOKEN_EXCEPTION, FALSE,
                    NULL, NULL, privk, NoAlgorithmID)
        ELSE IF pss /\ fault = "arena"
        THEN Locals(h, NULL, NULL, NULL, OUT_OF_MEMORY_ERROR, FALSE,
                    NULL, NULL, privk, NoAlgorithmID)
        ELSE IF pss /\ r.rv = SECFailure
        THEN Locals(h1, NULL, arena, NULL, r.exc, FALSE, NULL, arena, privk,
                    signAlg)
        ELSE IF fault = "newContext"
        THEN Locals(h1, NULL, arena, NULL, TOKEN_EXCEPTION, FALSE,
                    NULL, arena, privk, signAlg)
        ELSE IF fault = "begin"
        THEN Locals(h2, ctxt, arena, NULL, TOKEN_EXCEPTION, FALSE,
                    ctxt, arena, privk, signAlg)
        ELSE IF w.Context = NULL
        THEN Locals(w.h, w.ctxt, w.arena, NULL, w.exc, FALSE,
                    ctxt, arena, privk, signAlg)
        ELSE Locals(w.h, w.ctxt, w.arena, w.Context, NoException, TRUE,
                    ctxt, arena, privk, signAlg)

\* The finish block as it would be without its SGN/VFY_DestroyContext.
InitFinish_NoDestroy(h, ctxt, contextProxy, arena) ==
    FreeArena(h, arena)

\* The finish block as it would be if a factory that made a new proxy
\* released the one the signature object held before.
InitFinish_ReleasesPrevious(h, ctxt, contextProxy, arena) ==
    LET h1 == IF contextProxy = NULL /\ ctxt # NULL
              THEN DestroyContext(h, ctxt) ELSE h
        h2 == FreeArena(h1, arena)
    IN  IF contextProxy # NULL /\ sigContext # NULL
           /\ h2.recs[sigContext].state = "live"
        THEN ReleaseRecord(h2, sigContext, TRUE)
        ELSE h2

\* The finish block shared in shape by both factories: destroy the context
\* if no wrapper was made, then free whatever arena the local still holds.
InitFinish(h, ctxt, contextProxy, arena) ==
    LET h1 == IF contextProxy = NULL /\ ctxt # NULL
              THEN DestroyContext(h, ctxt) ELSE h
    IN  FreeArena(h1, arena)

(* ------------------------------ last call ------------------------------ *)

NoArray == <<>>

RetNone ==
    [op |-> "none", fault |-> "none",
     proxy |-> NULL,        \* proxy returned by wrap / proxy acted upon
     ctxt |-> NULL,         \* context created, or handed to the native call
     arena |-> NULL,        \* arena created
     localCtxt |-> NULL,    \* the factory's local ctxt on arrival at finish
     localArena |-> NULL,   \* the factory's local arena on arrival at finish
     signAlg |-> NoAlgorithmID,  \* the factory's local signAlg at finish
     privk |-> NULL,        \* placeholder key created
     keyDestroys |-> 0,     \* times the placeholder key was destroyed
     got |-> FALSE,         \* the context lookup succeeded
     input |-> "none",      \* where (offset, length) lies in the array
     fed |-> FALSE,         \* a native update was called
     updater |-> "none",    \* which one: SGN_Update or VFY_Update
     native |-> "none",     \* status / error code of the native finalize
     verified |-> FALSE,    \* jboolean returned
     sigArray |-> NoArray,  \* jbyteArray returned (NoArray is NULL)
     bufMade |-> FALSE,     \* signature.data was allocated by SGN_End
     bufFrees |-> 0,        \* times signature.data was PR_Free'd
     readFreed |-> FALSE,   \* a freed proxy record was dereferenced
     usedDead |-> FALSE,    \* a destroyed context went to a native call
     wrongType |-> FALSE,   \* a context went to a call of the other type
     nullBuffer |-> FALSE]  \* a NULL buffer went to a native crypto call

\* A caller that follows no script.
NoStream ==
    [phase |-> "off", m |-> <<>>, k |-> 0, sig |-> NoArray, kind |-> "none",
     whole |-> <<>>, wholeSig |-> NoArray,
     split |-> <<>>, splitSig |-> NoArray,
     one |-> <<>>, two |-> <<>>]

\* The PK11Signature object and the native heap before any call.
InitObject ==
    /\ algorithm \in Algorithms
    /\ digestAlgorithm \in Digests
    /\ algorithm # SEC_OID_PKCS1_RSA_PSS_SIGNATURE
           => digestAlgorithm = SEC_OID_UNKNOWN
    /\ sigContext = NULL
    /\ ctxs = <<>>
    /\ arenas = <<>>
    /\ recs = <<>>
    /\ exc = NoException
    /\ ret = RetNone

Init ==
    /\ InitObject
    /\ stream = NoStream

SetHeap(h) ==
    /\ ctxs' = h.ctxs
    /\ arenas' = h.arenas
    /\ recs' = h.recs

CanAllocate ==
    /\ Len(ctxs) < MaxAlloc
    /\ Len(arenas) < MaxAlloc
    /\ Len(recs) < MaxAlloc

PssOnlyFaults == {"tempKey", "arena"} \cup PssFaults

SigFaults == {"none", "key", "arena", "newContext", "begin", "setField"}
                 \cup PssFaults \cup WrapFaults

VfyFaults == SigFaults \cup {"tempKey"}

\* One call of initSigContext.
initSigContextCall ==
    \E fault \in SigFaults :
        /\ CanAllocate
        /\ fault \in PssOnlyFaults
               => algorithm = SEC_OID_PKCS1_RSA_PSS_SIGNATURE
        /\ LET L == SigSteps(Heap, algorithm, digestAlgorithm, fault)
               h == InitFinish(L.h, L.ctxt, L.contextProxy, L.arena)
           IN  /\ SetHeap(h)
               /\ sigContext' = IF L.store
                                THEN setSigContext(sigContext, L.contextProxy,
                                                   fault = "setField")
                                ELSE sigContext
               /\ exc' = L.exc
               /\ ret' = [RetNone EXCEPT !.op = "initSigContext",
                                         !.fault = fault,
                                         !.proxy = L.contextProxy,
                                         !.ctxt = L.made,
                                         !.arena = L.madeArena,
                                         !.localCtxt = L.ctxt,
                                         !.localArena = L.arena,
                                         !.signAlg = L.signAlg]
        /\ UNCHANGED <<algorithm, digestAlgorithm>>

(* PK11Signature.initSigContext *)
initSigContext == initSigContextCall /\ UNCHANGED stream

\* SECKEY_DestroyPublicKey(tempPubKey); SECKEY_DestroyPrivateKey(privk) at
\* finish: the number of times the placeholder key pair is destroyed (NULL
\* is ignored).
DestroyTempKeys(privk) == IF privk = NULL THEN 0 ELSE 1

\* One call of initVfyContext.
initVfyContextCall ==
    \E fault \in VfyFaults :
        /\ CanAllocate
        /\ fault \in PssOnlyFaults
               => algorithm = SEC_OID_PKCS1_RSA_PSS_SIGNATURE
        /\ LET L == VfySteps(Heap, algorithm, digestAlgorithm, fault)
               h == InitFinish(L.h, L.ctxt, L.contextProxy, L.arena)
           IN  /\ SetHeap(h)
               /\ sigContext' = IF L.store
                                THEN setSigContext(sigContext, L.contextProxy,
                                                   fault = "setField")
                                ELSE sigContext
               /\ exc' = L.exc
               \* SECKEY_DestroyPublicKey(tempPubKey);
               \* SECKEY_DestroyPrivateKey(privk)
               /\ ret' = [RetNone EXCEPT !.op = "initVfyContext",
                                         !.fault = fault,
                                         !.proxy = L.contextProxy,
                                         !.ctxt = L.made,
                                         !.arena = L.madeArena,
                                         !.localCtxt = L.ctxt,
                                         !.localArena = L.arena,
                                         !.signAlg = L.signAlg,
                                         !.privk = L.privk,
                                         !.keyDestroys =
                                             DestroyTempKeys(L.privk)]
        /\ UNCHANGED <<algorithm, digestAlgorithm>>

(* PK11Signature.initVfyContext *)
initVfyContext == initVfyContextCall /\ UNCHANGED stream

\* The choices open to a load from record p: only a freed record gives one.
StaleChoices(p) ==
    IF p # NULL /\ recs[p].state = "freed" THEN BOOLEAN ELSE {TRUE}

(* SigContextProxy.releaseNativeResources, called on proxy object p *)
ReleaseFaults == {"none", "getPtr"}

releaseNativeResources ==
    \E p \in 1..Len(recs), fault \in ReleaseFaults :
      \E stale \in StaleChoices(p) :
        /\ recs[p].object
        /\ recs[p].frees < MaxRelease
        /\ SetHeap(IF fault = "getPtr" THEN Heap
                   ELSE ReleaseRecord(Heap, p, stale))
        /\ exc' = IF fault = "getPtr" THEN OUT_OF_MEMORY_ERROR
                  ELSE NoException
        /\ ret' = [RetNone EXCEPT !.op = "releaseNativeResources",
                                  !.fault = fault, !.proxy = p,
                                  !.readFreed = fault # "getPtr"
                                                /\ Dangling(Heap, p)]
        /\ UNCHANGED <<algorithm, digestAlgorithm, sigContext, stream>>

(* ------------------------------ streaming engine ----------------------- *)

\* jint addition: the mathematical sum when it is representable, wrapped
\* modulo 2^32 otherwise (computed without leaving the 32-bit range).
Overflows(a, b) ==
    \/ a > 0 /\ b > MaxJint - a
    \/ a < 0 /\ b < MinJint - a

Add32(a, b) ==
    IF a > 0 /\ b > MaxJint - a THEN (a - MaxJint - 1) + (b - MaxJint - 1)
    ELSE IF a < 0 /\ b < MinJint - a THEN (a + MaxJint + 1) + (b + MaxJint + 1)
    ELSE a + b

\* The validation of engineUpdateNative:
\*   offset < 0 || offset >= numBytes || length < 0 ||
\*   (offset+length) > numBytes || (offset+length) < 0
\* offset+length is a signed int addition; when it overflows the behaviour
\* is undefined and the outcome of the two tests on the sum is whatever the
\* build produces: ubReject says whether such a build rejects.
BoundsRejected(offset, length, numBytes, ubReject) ==
    \/ offset < 0
    \/ offset >= numBytes
    \/ length < 0
    \/ IF Overflows(offset, length)
       THEN ubReject
       ELSE Add32(offset, length) > numBytes \/ Add32(offset, length) < 0

\* 0 <= offset, 0 <= length and offset + length <= numBytes, over the
\* mathematical integers.
InArray(offset, length, numBytes) ==
    /\ 0 <= offset
    /\ 0 <= length
    /\ length <= numBytes
    /\ offset <= numBytes - length

\* Where the requested range lies, for the record of the call.
InputClass(offset, length, numBytes) ==
    IF offset < 0 \/ length < 0 THEN "negative"
    ELSE IF Overflows(offset, length) THEN "overflow"
    ELSE IF ~InArray(offset, length, numBytes) THEN "beyond"
    ELSE IF offset = numBytes THEN "atEnd"
    ELSE "inside"

\* The range as it would be read if the offset were not added to bytes.
Slice_FromStart(bytes, offset, length) ==
    [i \in 1..length |-> bytes[i]]

Slice(bytes, offset, length) ==
    [i \in 1..length |-> bytes[offset + i]]

\* What a context has digested once it was fed memory from outside the
\* array: no sequence of bytes of the caller's.
Garbage == <<2>>

\* SGN_Update / VFY_Update(ctxt, bytes + offset, length).  A context that
\* is not in the begun state refuses the update; a destroyed context is a
\* memory error with no accumulator left to change; a range outside the
\* array makes the context digest whatever lies there.
NativeUpdate(h, c, bytes, offset, length, fail) ==
    IF h.ctxs[c].state = "destroyed"
    THEN [h |-> h, rv |-> IF fail THEN SECFailure ELSE SECSuccess]
    ELSE IF fail \/ h.ctxs[c].state # "begun"
    THEN [h |-> h, rv |-> SECFailure]
    ELSE IF ~InArray(offset, length, Len(bytes))
    THEN [h |-> [h EXCEPT !.ctxs[c].acc = Garbage], rv |-> SECSuccess]
    ELSE [h |-> [h EXCEPT !.ctxs[c].acc = @ \o Slice(bytes, offset, length)],
          rv |-> SECSuccess]

\* SGN_Update(ctxt, bytes + offset, length)
SGN_Update(h, c, bytes, offset, length, fail) ==
    LET u == NativeUpdate(h, c, bytes, offset, length, fail)
    IN  [h |-> u.h, rv |-> u.rv, fn |-> "SGN_Update"]

\* VFY_Update(ctxt, bytes + offset, length)
VFY_Update(h, c, bytes, offset, length, fail) ==
    LET u == NativeUpdate(h, c, bytes, offset, length, fail)
    IN  [h |-> u.h, rv |-> u.rv, fn |-> "VFY_Update"]

EarlyFaults == {"getField", "getPtr", "refArray"}
UpdateFaults == {"none", "update"} \cup EarlyFaults

\* engineUpdateNative as it would be with the native update moved ahead of
\* the validation.
UpdateSteps_FeedsFirst(h, sig, bArray, offset, length, fault, stale, ubReject) ==
    LET g == getSigContext(h, sig, fault = "getField", fault = "getPtr", stale)
        numBytes == Len(bArray)
        base == [RetNone EXCEPT !.op = "engineUpdateNative", !.fault = fault,
                                !.proxy = sig, !.got = g.ok,
                                !.readFreed = g.readFreed]
        checked == [base EXCEPT !.input = InputClass(offset, length, numBytes)]
        u == IF g.type = SGN_CONTEXT
             THEN SGN_Update(h, g.ctxt, bArray, offset, length,
                             fault = "update")
             ELSE VFY_Update(h, g.ctxt, bArray, offset, length,
                             fault = "update")
    IN  IF ~g.ok
        THEN [h |-> h, exc |-> g.exc, ret |-> base]
        ELSE IF fault = "refArray"
        THEN [h |-> h, exc |-> OUT_OF_MEMORY_ERROR, ret |-> base]
        ELSE IF BoundsRejected(offset, length, numBytes, ubReject)
        THEN [h |-> u.h, exc |-> ARRAY_INDEX_OUT_OF_BOUNDS_EXCEPTION,
              ret |-> checked]
        ELSE [h |-> u.h,
              exc |-> IF u.rv # SECSuccess THEN SIGNATURE_EXCEPTION
                      ELSE NoException,
              ret |-> [checked EXCEPT
                          !.ctxt = g.ctxt, !.fed = TRUE, !.updater = u.fn,
                          !.usedDead = h.ctxs[g.ctxt].state = "destroyed"]]

\* engineUpdateNative from entry to return: the heap, the exception and the
\* record of the call.
UpdateSteps(h, sig, bArray, offset, length, fault, stale, ubReject) ==
    LET g == getSigContext(h, sig, fault = "getField", fault = "getPtr", stale)
        numBytes == Len(bArray)
        base == [RetNone EXCEPT !.op = "engineUpdateNative", !.fault = fault,
                                !.proxy = sig, !.got = g.ok,
                                !.readFreed = g.readFreed]
        checked == [base EXCEPT !.input = InputClass(offset, length, numBytes)]
        u == IF g.type = SGN_CONTEXT
             THEN SGN_Update(h, g.ctxt, bArray, offset, length,
                             fault = "update")
             ELSE VFY_Update(h, g.ctxt, bArray, offset, length,
                             fault = "update")
    IN  IF ~g.ok
        THEN [h |-> h, exc |-> g.exc, ret |-> base]
        ELSE IF fault = "refArray"
        THEN [h |-> h, exc |-> OUT_OF_MEMORY_ERROR, ret |-> base]
        ELSE IF BoundsRejected(offset, length, numBytes, ubReject)
        THEN [h |-> h, exc |-> ARRAY_INDEX_OUT_OF_BOUNDS_EXCEPTION,
              ret |-> checked]
        ELSE [h |-> u.h,
              exc |-> IF u.rv # SECSuccess THEN SIGNATURE_EXCEPTION
                      ELSE NoException,
              ret |-> [checked EXCEPT
                          !.ctxt = g.ctxt, !.fed = TRUE, !.updater = u.fn,
                          !.usedDead = h.ctxs[g.ctxt].state = "destroyed"]]

\* One call of engineUpdateNative with the given arguments.  The exits
\* taken before the arguments are looked at are tried with one argument
\* list, a failing native update with whole arrays.
Update(bArray, offset, length) ==
    \E fault \in UpdateFaults, stale \in StaleChoices(sigContext),
       ubReject \in BOOLEAN :
        /\ ubReject => Overflows(offset, length) /\ fault = "none"
        /\ fault \in EarlyFaults => bArray = <<>> /\ offset = 0 /\ length = 0
        /\ fault = "update" => offset = 0 /\ length = Len(bArray)
        /\ LET r == UpdateSteps(Heap, sigContext, bArray, offset, length,
                                fault, stale, ubReject)
           IN  /\ \A c \in 1..Len(r.h.ctxs) : Len(r.h.ctxs[c].acc) <= MaxAcc
               /\ SetHeap(r.h)
               /\ exc' = r.exc
               /\ ret' = r.ret
        /\ UNCHANGED <<algorithm, digestAlgorithm, sigContext>>

(* PK11Signature.engineUpdateNative, fed ranges of an array *)
engineUpdateNative ==
    /\ \E bArray \in ZeroArrays :
         \E offset \in 0..Len(bArray) :
           \E length \in 0..(Len(bArray) - offset) :
               Update(bArray, offset, length)
    /\ UNCHANGED stream

(* PK11Signature.engineUpdateNative, called with any offset and length *)
engineUpdateNativeAny ==
    /\ \E bArray \in ZeroArrays, offset \in Jints, length \in Jints :
           Update(bArray, offset, length)
    /\ UNCHANGED stream

SEC_ERROR_BAD_SIGNATURE == "SEC_ERROR_BAD_SIGNATURE"
SEC_ERROR_LIBRARY_FAILURE == "SEC_ERROR_LIBRARY_FAILURE"

\* The signature the token computes over the accumulated bytes, as the
\* bytes of a jbyteArray: the length, then each byte changed (never empty,
\* so it differs from NoArray).
Signature(acc) == <<Len(acc)>> \o [i \in 1..Len(acc) |-> 1 - acc[i]]

\* The signature a context computes: it depends on the algorithm the
\* context was created with as well as on the bytes.
AlgTag(alg) ==
    IF alg.sig # SEC_OID_PKCS1_RSA_PSS_SIGNATURE THEN 0
    ELSE IF alg.digest = SEC_OID_UNKNOWN THEN 1
    ELSE 2

SignatureUnder(alg, acc) == <<AlgTag(alg)>> \o Signature(acc)

\* SGN_End as it would be if it signed under the algorithm the signature
\* object is configured with at the time of the call.
SGN_End_ReadsConfiguration(h, c, fail) ==
    IF h.ctxs[c].state = "destroyed" \/ h.ctxs[c].type # SGN_CONTEXT
    THEN [h |-> h, rv |-> IF fail THEN SECFailure ELSE SECSuccess,
          data |-> IF fail THEN NoArray ELSE Garbage]
    ELSE IF fail \/ h.ctxs[c].state # "begun"
    THEN [h |-> h, rv |-> SECFailure, data |-> NoArray]
    ELSE [h |-> [h EXCEPT !.ctxs[c].state = "ended"], rv |-> SECSuccess,
          data |-> SignatureUnder(ContextAlg(algorithm, digestAlgorithm),
                                  h.ctxs[c].acc)]

\* SGN_End(ctxt, &signature): ends the digest; the context stays allocated.
\* Handed a destroyed context or a VFYContext it works on memory that is no
\* SGNContext: it may fail, or report success over bytes that are no
\* signature of the caller's message.
SGN_End(h, c, fail) ==
    IF h.ctxs[c].state = "destroyed" \/ h.ctxs[c].type # SGN_CONTEXT
    THEN [h |-> h, rv |-> IF fail THEN SECFailure ELSE SECSuccess,
          data |-> IF fail THEN NoArray ELSE Garbage]
    ELSE IF fail \/ h.ctxs[c].state # "begun"
    THEN [h |-> h, rv |-> SECFailure, data |-> NoArray]
    ELSE [h |-> [h EXCEPT !.ctxs[c].state = "ended"], rv |-> SECSuccess,
          data |-> SignatureUnder(h.ctxs[c].alg, h.ctxs[c].acc)]

SignFaults == {"none", "getField", "getPtr", "end", "toByteArray"}

\* engineSignNative as it would be if a failed SGN_End made it destroy the
\* context.
SignSteps_DestroysOnFailure(h, sig, fault, stale) ==
    LET g == getSigContext(h, sig, fault = "getField", fault = "getPtr", stale)
        base == [RetNone EXCEPT !.op = "engineSignNative", !.fault = fault,
                                !.proxy = sig, !.got = g.ok,
                                !.readFreed = g.readFreed]
        e == SGN_End(h, g.ctxt, fault = "end")
        done == [base EXCEPT
                    !.ctxt = g.ctxt, !.native = e.rv,
                    !.bufMade = e.data # NoArray,
                    !.bufFrees = IF e.data # NoArray THEN 1 ELSE 0,
                    !.usedDead = h.ctxs[g.ctxt].state = "destroyed",
                    !.wrongType = h.ctxs[g.ctxt].type # SGN_CONTEXT]
    IN  IF ~g.ok
        THEN [h |-> h, exc |-> g.exc, ret |-> base]
        ELSE IF e.rv # SECSuccess
        THEN [h |-> DestroyContext(e.h, g.ctxt), exc |-> SIGNATURE_EXCEPTION,
              ret |-> done]
        ELSE IF fault = "toByteArray"
        THEN [h |-> e.h, exc |-> OUT_OF_MEMORY_ERROR, ret |-> done]
        ELSE [h |-> e.h, exc |-> NoException,
              ret |-> [done EXCEPT !.sigArray = e.data]]

\* engineSignNative as it would be if the exit taken when JSS_ToByteArray
\* fails went past the PR_Free of signature.data.
SignSteps_LeaksOnCopyFailure(h, sig, fault, stale) ==
    LET g == getSigContext(h, sig, fault = "getField", fault = "getPtr", stale)
        base == [RetNone EXCEPT !.op = "engineSignNative", !.fault = fault,
                                !.proxy = sig, !.got = g.ok,
                                !.readFreed = g.readFreed]
        e == SGN_End(h, g.ctxt, fault = "end")
        \* finish: if (signature.data != NULL) PR_Free(signature.data)
        done == [base EXCEPT
                    !.ctxt = g.ctxt, !.native = e.rv,
                    !.bufMade = e.data # NoArray,
                    !.bufFrees = IF e.data # NoArray /\ fault # "toByteArray"
                                 THEN 1 ELSE 0,
                    !.usedDead = h.ctxs[g.ctxt].state = "destroyed",
                    !.wrongType = h.ctxs[g.ctxt].type # SGN_CONTEXT]
    IN  IF ~g.ok
        THEN [h |-> h, exc |-> g.exc, ret |-> base]
        ELSE IF e.rv # SECSuccess
        THEN [h |-> e.h, exc |-> SIGNATURE_EXCEPTION, ret |-> done]
        ELSE IF fault = "toByteArray"
        THEN [h |-> e.h, exc |-> OUT_OF_MEMORY_ERROR, ret |-> done]
        ELSE [h |-> e.h, exc |-> NoException,
              ret |-> [done EXCEPT !.sigArray = e.data]]

\* engineSignNative from entry to return.
SignSteps(h, sig, fault, stale) ==
    LET g == getSigContext(h, sig, fault = "getField", fault = "getPtr", stale)
        base == [RetNone EXCEPT !.op = "engineSignNative", !.fault = fault,
                                !.proxy = sig, !.got = g.ok,
                                !.readFreed = g.readFreed]
        e == SGN_End(h, g.ctxt, fault = "end")
        \* finish: if (signature.data != NULL) PR_Free(signature.data)
        done == [base EXCEPT
                    !.ctxt = g.ctxt, !.native = e.rv,
                    !.bufMade = e.data # NoArray,
                    !.bufFrees = IF e.data # NoArray THEN 1 ELSE 0,
                    !.usedDead = h.ctxs[g.ctxt].state = "destroyed",
                    !.wrongType = h.ctxs[g.ctxt].type # SGN_CONTEXT]
    IN  IF ~g.ok
        THEN [h |-> h, exc |-> g.exc, ret |-> base]
        ELSE IF e.rv # SECSuccess
        THEN [h |-> e.h, exc |-> SIGNATURE_EXCEPTION, ret |-> done]
        ELSE IF fault = "toByteArray"
        THEN [h |-> e.h, exc |-> OUT_OF_MEMORY_ERROR, ret |-> done]
        ELSE [h |-> e.h, exc |-> NoException,
              ret |-> [done EXCEPT !.sigArray = e.data]]

\* One call of engineSignNative.
engineSignNativeCall ==
    \E fault \in SignFaults, stale \in StaleChoices(sigContext) :
        /\ LET r == SignSteps(Heap, sigContext, fault, stale)
           IN  /\ SetHeap(r.h)
               /\ exc' = r.exc
               /\ ret' = r.ret
        /\ UNCHANGED <<algorithm, digestAlgorithm, sigContext>>

(* PK11Signature.engineSignNative *)
engineSignNative == engineSignNativeCall /\ UNCHANGED stream

\* VFY_EndWithSignature(ctxt, &sigItem): the status, and the error code
\* PR_GetError() then reports.
VFY_EndWithSignature(h, c, sigItem, fail) ==
    IF fail \/ h.ctxs[c].state # "begun"
    THEN [rv |-> SECFailure, err |-> SEC_ERROR_LIBRARY_FAILURE]
    ELSE IF sigItem # SignatureUnder(h.ctxs[c].alg, h.ctxs[c].acc)
    THEN [rv |-> SECFailure, err |-> SEC_ERROR_BAD_SIGNATURE]
    ELSE [rv |-> SECSuccess, err |-> SECSuccess]

\* Lines 363-370 as they would be without the test of PR_GetError().
VerifyOutcome_ThrowsOnMismatch(rv, err) ==
    IF rv = SECSuccess
    THEN [verified |-> TRUE, exc |-> NoException]
    ELSE [verified |-> FALSE, exc |-> SIGNATURE_EXCEPTION]

\* Lines 363-370 of engineVerifyNative: the jboolean and the exception that
\* follow from the native status and error code.
VerifyOutcome(rv, err) ==
    IF rv = SECSuccess
    THEN [verified |-> TRUE, exc |-> NoException]
    ELSE IF err # SEC_ERROR_BAD_SIGNATURE
    THEN [verified |-> FALSE, exc |-> SIGNATURE_EXCEPTION]
    ELSE [verified |-> FALSE, exc |-> NoException]

VerifyFaults == {"none", "getField", "getPtr", "refArray", "end"}

\* engineVerifyNative as it would be without the test "type != VFY_CONTEXT".
VerifySteps_NoTypeCheck(h, sig, sigArray, fault, stale) ==
    LET g == getSigContext(h, sig, fault = "getField", fault = "getPtr", stale)
        base == [RetNone EXCEPT !.op = "engineVerifyNative", !.fault = fault,
                                !.proxy = sig, !.got = g.ok,
                                !.readFreed = g.readFreed]
        e == VFY_EndWithSignature(h, g.ctxt, sigArray, fault = "end")
        o == VerifyOutcome(e.rv, e.err)
    IN  IF ~g.ok
        THEN [h |-> h, exc |-> SIGNATURE_EXCEPTION, ret |-> base]
        ELSE IF fault = "refArray"
        THEN [h |-> h, exc |-> OUT_OF_MEMORY_ERROR, ret |-> base]
        ELSE [h |-> h, exc |-> o.exc,
              ret |-> [base EXCEPT
                          !.ctxt = g.ctxt,
                          !.native = IF e.rv = SECSuccess THEN SECSuccess
                                     ELSE e.err,
                          !.verified = o.verified,
                          !.usedDead = h.ctxs[g.ctxt].state = "destroyed",
                          !.wrongType = h.ctxs[g.ctxt].type # VFY_CONTEXT]]

\* engineVerifyNative from entry to return.
VerifySteps(h, sig, sigArray, fault, stale) ==
    LET g == getSigContext(h, sig, fault = "getField", fault = "getPtr", stale)
        base == [RetNone EXCEPT !.op = "engineVerifyNative", !.fault = fault,
                                !.proxy = sig, !.got = g.ok,
                                !.readFreed = g.readFreed]
        e == VFY_EndWithSignature(h, g.ctxt, sigArray, fault = "end")
        o == VerifyOutcome(e.rv, e.err)
    IN  IF ~g.ok
        THEN [h |-> h, exc |-> SIGNATURE_EXCEPTION, ret |-> base]
        ELSE IF g.type # VFY_CONTEXT
        THEN [h |-> h, exc |-> SIGNATURE_EXCEPTION, ret |-> base]
        ELSE IF fault = "refArray"
        THEN [h |-> h, exc |-> OUT_OF_MEMORY_ERROR, ret |-> base]
        ELSE [h |-> h, exc |-> o.exc,
              ret |-> [base EXCEPT
                          !.ctxt = g.ctxt,
                          !.native = IF e.rv = SECSuccess THEN SECSuccess
                                     ELSE e.err,
                          !.verified = o.verified,
                          !.usedDead = h.ctxs[g.ctxt].state = "destroyed",
                          !.wrongType = h.ctxs[g.ctxt].type # VFY_CONTEXT]]

\* The signature arrays handed to engineVerifyNative.
SignatureArrays == {SignatureUnder(a, m) : a \in AlgSnapshots, m \in ZeroArrays}

\* One call of engineVerifyNative with the given array.  The exits taken
\* before the array is looked at are tried with one array.
Verify(sigArray) ==
    \E fault \in VerifyFaults, stale \in StaleChoices(sigContext) :
        /\ fault \in EarlyFaults => sigArray = <<0>> \o Signature(<<>>)
        /\ LET r == VerifySteps(Heap, sigContext, sigArray, fault, stale)
           IN  /\ SetHeap(r.h)
               /\ exc' = r.exc
               /\ ret' = r.ret
        /\ UNCHANGED <<algorithm, digestAlgorithm, sigContext>>

(* PK11Signature.engineVerifyNative *)
engineVerifyNative ==
    /\ \E sigArray \in SignatureArrays : Verify(sigArray)
    /\ UNCHANGED stream

(* ------------------------------ raw verify ----------------------------- *)

\* PK11_Verify(key, sig, hash, NULL)
PK11_Verify(sig, hash, fail) ==
    IF fail THEN [rv |-> SECFailure, err |-> SEC_ERROR_LIBRARY_FAILURE]
    ELSE IF sig # Signature(hash)
    THEN [rv |-> SECFailure, err |-> SEC_ERROR_BAD_SIGNATURE]
    ELSE [rv |-> SECSuccess, err |-> SECSuccess]

\* Lines 884-890 of engineRawVerifyNative.
RawVerifyOutcome(rv, err) ==
    IF rv = SECSuccess
    THEN [verified |-> TRUE, exc |-> NoException]
    ELSE IF err # SEC_ERROR_BAD_SIGNATURE
    THEN [verified |-> FALSE, exc |-> SIGNATURE_EXCEPTION]
    ELSE [verified |-> FALSE, exc |-> NoException]

RawVerifyFaults == {"none", "sigItem", "hashItem", "key", "verify"}

(* PK11Signature.engineRawVerifyNative *)
engineRawVerifyNative ==
    \E hashBA \in ZeroArrays, sigBA \in {Signature(m) : m \in ZeroArrays},
       fault \in RawVerifyFaults :
        /\ fault \in {"sigItem", "hashItem", "key"}
               => hashBA = <<>> /\ sigBA = Signature(<<>>)
        /\ LET base == [RetNone EXCEPT !.op = "engineRawVerifyNative",
                                       !.fault = fault]
               v == PK11_Verify(sigBA, hashBA, fault = "verify")
               o == RawVerifyOutcome(v.rv, v.err)
           IN  IF fault \in {"sigItem", "hashItem"}
               THEN exc' = OUT_OF_MEMORY_ERROR /\ ret' = base
               ELSE IF fault = "key"
               THEN exc' = TOKEN_EXCEPTION /\ ret' = base
               ELSE /\ exc' = o.exc
                    /\ ret' = [base EXCEPT !.native = IF v.rv = SECSuccess
                                                      THEN SECSuccess
                                                      ELSE v.err,
                                           !.verified = o.verified]
        /\ UNCHANGED <<algorithm, digestAlgorithm, sigContext, ctxs, arenas,
                       recs, stream>>

(* ------------------------------- raw sign ------------------------------ *)

SIGSEGV == "SIGSEGV"

\* What a native call can do with a NULL item or a NULL data pointer: trap,
\* fail, or report success.
NullOutcomes == {SIGSEGV, SECFailure, SECSuccess}

\* PK11_Sign(key, sig, hash)
PK11_Sign(hash, fail) ==
    IF fail THEN [rv |-> SECFailure, data |-> NoArray]
    ELSE [rv |-> SECSuccess, data |-> Signature(hash)]

RawSignAllocFaults == {"hashItem", "sigNew", "sigData"}
RawSignFaults == {"none", "key", "sign", "toByteArray"} \cup RawSignAllocFaults

\* engineRawSignNative from entry to return.  Neither the SECItem made from
\* hashBA, nor the SECItem from PR_NEW, nor the buffer from PR_Malloc is
\* tested before use: with any of them NULL the code still stores through
\* sig and calls PK11_Sign, and null says what comes of that.
RawSignSteps(hashBA, fault, null) ==
    LET base == [RetNone EXCEPT !.op = "engineRawSignNative", !.fault = fault]
        missing == fault \in RawSignAllocFaults
        s == PK11_Sign(hashBA, fault = "sign")
        called == [base EXCEPT !.native = IF missing THEN null ELSE s.rv,
                               !.nullBuffer = missing]
        \* JSS_ByteArrayToSECItem has left its exception pending
        pending == IF fault = "hashItem" THEN OUT_OF_MEMORY_ERROR
                   ELSE NoException
    IN  IF fault = "key"
        THEN [exc |-> TOKEN_EXCEPTION, ret |-> base]
        ELSE IF missing /\ null = SIGSEGV
        THEN [exc |-> pending, ret |-> called]
        ELSE IF called.native # SECSuccess
        THEN [exc |-> SIGNATURE_EXCEPTION, ret |-> called]
        ELSE IF fault = "toByteArray"
        THEN [exc |-> OUT_OF_MEMORY_ERROR, ret |-> called]
        ELSE [exc |-> pending,
              ret |-> [called EXCEPT !.sigArray = IF missing THEN Garbage
                                                 ELSE s.data]]

(* PK11Signature.engineRawSignNative *)
engineRawSignNative ==
    \E hashBA \in ZeroArrays, fault \in RawSignFaults, null \in NullOutcomes :
        /\ fault \in RawSignAllocFaults \cup {"key"} => hashBA = <<>>
        /\ fault \notin RawSignAllocFaults => null = SECSuccess
        /\ LET r == RawSignSteps(hashBA, fault, null)
           IN  /\ exc' = r.exc
               /\ ret' = r.ret
        /\ UNCHANGED <<algorithm, digestAlgorithm, sigContext, ctxs, arenas,
                       recs, stream>>

(* ------------------------------ specifications ------------------------- *)

Next ==
    \/ initSigContext
    \/ initVfyContext
    \/ engineUpdateNative
    \/ engineSignNative
    \/ engineVerifyNative
    \/ releaseNativeResources
    \/ engineRawSignNative
    \/ engineRawVerifyNative

Spec == Init /\ [][Next]_vars

\* The same program driven with arbitrary update arguments.
NextAny ==
    \/ initSigContext
    \/ initVfyContext
    \/ engineUpdateNativeAny
    \/ releaseNativeResources

SpecAny == Init /\ [][NextAny]_vars

(* --------------------- one message signed in two ways ------------------ *)

\* The managed byte arrays with contents.
ByteArrays == UNION {[1..n -> {0, 1}] : n \in 0..MaxArr}

\* The caller holds a message m and a split point k.  It creates a context,
\* feeds it m in one engineUpdateNative call and, when signing, finalizes;
\* then it creates a second context of the same kind, feeds it m[0:k] and
\* m[k:] in two calls and finalizes that.  stream records how far the
\* caller got and what each context had accumulated and returned.  A call in
\* which a failure was injected ends the script.
InitStream ==
    /\ InitObject
    /\ stream \in {[NoStream EXCEPT !.phase = "idle", !.m = m, !.k = k] :
                       m \in ByteArrays, k \in 0..MaxArr}
    /\ stream.k <= Len(stream.m)

\* The create call just made left its proxy in the signature object.
Created == exc' = NoException /\ sigContext' = ret'.proxy

\* The bytes the context of the signature object has accumulated.
Accumulated == ctxs'[recs'[sigContext'].ctxt].acc

CreatePhase(kind) ==
    /\ \/ stream.phase = "idle"
       \/ stream.phase = "signedWhole" /\ stream.kind = kind
       \/ stream.phase = "fedWhole" /\ stream.kind = kind
                                    /\ kind = VFY_CONTEXT
    /\ stream' = [stream EXCEPT
                     !.kind = kind,
                     !.phase = IF ~Created THEN "aborted"
                               ELSE IF @ = "idle" THEN "madeWhole"
                               ELSE "madeSplit"]

StreamCreateSign == initSigContextCall /\ CreatePhase(SGN_CONTEXT)

StreamCreateVerify == initVfyContextCall /\ CreatePhase(VFY_CONTEXT)

\* update(m)
StreamWhole ==
    /\ stream.phase = "madeWhole"
    /\ Update(stream.m, 0, Len(stream.m))
    /\ stream' = IF ret'.fault # "none"
                 THEN [stream EXCEPT !.phase = "aborted"]
                 ELSE [stream EXCEPT !.phase = "fedWhole",
                                     !.whole = Accumulated]

\* update(m[0:k])
StreamFirst ==
    /\ stream.phase = "madeSplit"
    /\ Update(stream.m, 0, stream.k)
    /\ stream' = [stream EXCEPT !.phase = IF ret'.fault # "none"
                                          THEN "aborted" ELSE "fedFirst"]

\* update(m[k:])
StreamSecond ==
    /\ stream.phase = "fedFirst"
    /\ Update(stream.m, stream.k, Len(stream.m) - stream.k)
    /\ stream' = IF ret'.fault # "none"
                 THEN [stream EXCEPT !.phase = "aborted"]
                 ELSE [stream EXCEPT !.phase = "fedSplit",
                                     !.split = Accumulated]

\* finalizeSign of either context
StreamSign ==
    /\ stream.phase \in {"fedWhole", "fedSplit"}
    /\ stream.kind = SGN_CONTEXT
    /\ engineSignNativeCall
    /\ stream' = IF ret'.fault # "none"
                 THEN [stream EXCEPT !.phase = "aborted"]
                 ELSE IF stream.phase = "fedWhole"
                 THEN [stream EXCEPT !.phase = "signedWhole",
                                     !.wholeSig = ret'.sigArray]
                 ELSE [stream EXCEPT !.phase = "signedSplit",
                                     !.splitSig = ret'.sigArray]

NextStream ==
    \/ StreamCreateSign
    \/ StreamCreateVerify
    \/ StreamWhole
    \/ StreamFirst
    \/ StreamSecond
    \/ StreamSign

SpecStream == InitStream /\ [][NextStream]_vars

(* ------------- the configuration changed under a live context --------- *)

\* The caller runs create, update(m), finalize twice on the same message
\* (and, when verifying, the same signature array: a signature of m under
\* some algorithm).  In the second run it
\* may change the algorithm and digest fields of the signature object any
\* time after the create call has returned.  stream.one and stream.two
\* record what the calls after create returned in each run.
InitConfig ==
    /\ InitObject
    /\ stream \in {[NoStream EXCEPT !.phase = "idle", !.m = m,
                                     !.sig = SignatureUnder(a, m)] :
                       m \in ByteArrays, a \in AlgSnapshots}

\* What a caller sees of the call just made.
Outcome ==
    [fault |-> ret'.fault, exc |-> exc', acc |-> Accumulated,
     sigArray |-> ret'.sigArray, verified |-> ret'.verified]

\* The outcome goes to the record of the run the caller is in, which moves
\* on to the phase given.
Recorded(first, second) ==
    stream' = IF stream.phase \in {"made1", "fed1"}
              THEN [stream EXCEPT !.phase = first,
                                  !.one = Append(@, Outcome)]
              ELSE [stream EXCEPT !.phase = second,
                                  !.two = Append(@, Outcome)]

ConfigCreatePhase(kind) ==
    /\ \/ stream.phase = "idle"
       \/ stream.phase = "done1" /\ stream.kind = kind
    /\ stream' = [stream EXCEPT
                     !.kind = kind,
                     !.phase = IF ~Created THEN "aborted"
                               ELSE IF @ = "idle" THEN "made1"
                               ELSE "made2"]

ConfigCreateSign == initSigContextCall /\ ConfigCreatePhase(SGN_CONTEXT)

ConfigCreateVerify == initVfyContextCall /\ ConfigCreatePhase(VFY_CONTEXT)

\* The caller stores another algorithm or digest in the signature object.
setConfiguration ==
    /\ stream.phase \in {"made2", "fed2"}
    /\ algorithm' \in Algorithms
    /\ digestAlgorithm' \in Digests
    /\ <<algorithm', digestAlgorithm'>> # <<algorithm, digestAlgorithm>>
    /\ UNCHANGED <<sigContext, ctxs, arenas, recs, exc, ret, stream>>

ConfigUpdate ==
    /\ stream.phase \in {"made1", "made2"}
    /\ Update(stream.m, 0, Len(stream.m))
    /\ Recorded("fed1", "fed2")

ConfigSign ==
    /\ stream.phase \in {"fed1", "fed2"}
    /\ stream.kind = SGN_CONTEXT
    /\ engineSignNativeCall
    /\ Recorded("done1", "done2")

ConfigVerify ==
    /\ stream.phase \in {"fed1", "fed2"}
    /\ stream.kind = VFY_CONTEXT
    /\ Verify(stream.sig)
    /\ Recorded("done1", "done2")

NextConfig ==
    \/ ConfigCreateSign
    \/ ConfigCreateVerify
    \/ setConfiguration
    \/ ConfigUpdate
    \/ ConfigSign
    \/ ConfigVerify

SpecConfig == InitConfig /\ [][NextConfig]_vars

(* ------------------------------- properties ---------------------------- *)

InitOps == {"initSigContext", "initVfyContext"}
GetOps == {"engineUpdateNative", "engineSignNative", "engineVerifyNative"}

\* C1: release is idempotent.  Over any sequence of releaseNativeResources
\* calls every native context, every arena and every proxy record is freed
\* at most once, and no release dereferences a proxy record already freed.
ReleaseIdempotent ==
    /\ \A c \in 1..Len(ctxs) : ctxs[c].destroys <= 1
    /\ \A a \in 1..Len(arenas) : arenas[a].frees <= 1
    /\ \A p \in 1..Len(recs) : recs[p].frees <= 1
    /\ ret.op = "releaseNativeResources" => ~ret.readFreed

\* C2: use after release is detected.  Once a proxy has been released,
\* every update / sign / verify that looks its context up fails with a
\* SignatureException, and no destroyed context reaches a native call.
UseAfterReleaseDetected ==
    (/\ ret.op \in GetOps
     /\ ret.proxy # NULL
     /\ ret.fault \notin {"getField", "getPtr"}
     /\ recs[ret.proxy].state = "freed")
        => /\ ~ret.got
           /\ exc = SIGNATURE_EXCEPTION
           /\ ~ret.usedDead

\* C3: no leak and no double free on wrap failure.  When the wrap step of
\* a create call fails, the context it had begun and the arena (if any)
\* have each been destroyed exactly once when the call returns, and the
\* proxy record, if it was allocated, has been freed once.
WrapFailureDestroysOnce ==
    (ret.op \in InitOps /\ ret.fault \in WrapFaults)
        => /\ ret.proxy = NULL
           /\ ret.ctxt # NULL
           /\ ctxs[ret.ctxt].begun
           /\ ctxs[ret.ctxt].state = "destroyed"
           /\ ctxs[ret.ctxt].destroys = 1
           /\ ret.arena # NULL => /\ arenas[ret.arena].state = "freed"
                                  /\ arenas[ret.arena].frees = 1
           /\ \A p \in 1..Len(recs) :
                  (recs[p].ctxt = ret.ctxt)
                      => recs[p].state = "freed" /\ recs[p].frees = 1

\* Witness of C3: an RSA-PSS create whose wrap failed after the record was
\* allocated, with context and arena destroyed.
WrapFailureReached ==
    /\ ret.op \in InitOps
    /\ ret.fault = "newObject"
    /\ ret.ctxt # NULL /\ ctxs[ret.ctxt].destroys = 1
    /\ ret.arena # NULL /\ arenas[ret.arena].frees = 1

\* C4: every exit of a create call that returns no proxy leaves nothing it
\* allocated alive: the context, if created, and the arena, if created, were
\* each destroyed exactly once; a failed begin raises a TokenException.
FailedCreateLeavesNothing ==
    (ret.op \in InitOps /\ ret.proxy = NULL)
        => /\ ret.ctxt # NULL => /\ ctxs[ret.ctxt].state = "destroyed"
                                 /\ ctxs[ret.ctxt].destroys = 1
           /\ ret.arena # NULL => /\ arenas[ret.arena].state = "freed"
                                  /\ arenas[ret.arena].frees = 1
           /\ ret.fault = "begin" => exc = TOKEN_EXCEPTION
           /\ ret.privk # NULL => ret.keyDestroys = 1

\* Witness of C4: a begin failure under RSA-PSS, context and arena gone.
BeginFailureReached ==
    /\ ret.op \in InitOps
    /\ ret.fault = "begin"
    /\ ret.proxy = NULL
    /\ ret.ctxt # NULL /\ ctxs[ret.ctxt].destroys = 1
    /\ ret.arena # NULL /\ arenas[ret.arena].frees = 1
    /\ exc = TOKEN_EXCEPTION

\* C5: update accepts every range with 0 <= offset, 0 <= length and
\* offset + length <= bytes.size, the empty range at the end of the array
\* included.
ValidRangeAccepted ==
    (ret.op = "engineUpdateNative" /\ ret.input \in {"inside", "atEnd"})
        => exc # ARRAY_INDEX_OUT_OF_BOUNDS_EXCEPTION

\* C6: update rejects, with the bounds exception and before any native
\* update, every range with a negative offset or length, with
\* offset + length beyond the array, or whose 32-bit sum overflows.
InvalidRangeRejected ==
    (ret.op = "engineUpdateNative"
     /\ ret.input \in {"negative", "beyond", "overflow"})
        => exc = ARRAY_INDEX_OUT_OF_BOUNDS_EXCEPTION /\ ~ret.fed

\* C7: a call of update that ends in the bounds exception changes neither
\* a context's accumulator or state, nor a proxy record, nor an arena, nor
\* the proxy the signature object holds.
BoundsViolationChangesNothing ==
    [][(ret'.op = "engineUpdateNative"
        /\ exc' = ARRAY_INDEX_OUT_OF_BOUNDS_EXCEPTION)
          => UNCHANGED <<ctxs, arenas, recs, sigContext>>]_vars

\* Witness of C7: a bounds exception raised against a live context that
\* had already accumulated bytes.
BoundsViolationReached ==
    /\ ret.op = "engineUpdateNative"
    /\ exc = ARRAY_INDEX_OUT_OF_BOUNDS_EXCEPTION
    /\ ret.input = "beyond"
    /\ sigContext # NULL
    /\ recs[sigContext].state = "live"
    /\ ctxs[recs[sigContext].ctxt].acc # <<>>

VerifyOps == {"engineVerifyNative", "engineRawVerifyNative"}

\* C8: a verification mismatch is not an error.  In engineVerifyNative and
\* engineRawVerifyNative a native failure with the bad-signature code
\* returns false with no exception, any other native failure raises a
\* SignatureException, and true is returned only on native success.
MismatchIsNotAnError ==
    ret.op \in VerifyOps
        => /\ ret.native = SEC_ERROR_BAD_SIGNATURE
                  => ~ret.verified /\ exc = NoException
           /\ ret.native = SEC_ERROR_LIBRARY_FAILURE
                  => ~ret.verified /\ exc = SIGNATURE_EXCEPTION
           /\ ret.verified => ret.native = SECSuccess /\ exc = NoException

\* Witness of C8: a streaming verification that met a wrong signature.
MismatchReached ==
    /\ ret.op = "engineVerifyNative"
    /\ ret.native = SEC_ERROR_BAD_SIGNATURE
    /\ ~ret.verified
    /\ exc = NoException

\* C9: every context that reached a proxy is destroyed exactly once: never
\* more than once whatever calls are made, and once when the proxy has
\* been released.
ProxiedContextDestroyedOnce ==
    \A p \in 1..Len(recs) :
        recs[p].object
            => /\ ctxs[recs[p].ctxt].destroys <= 1
               /\ recs[p].state = "freed" => ctxs[recs[p].ctxt].destroys = 1

\* C10: no half-constructed state is observable.  The proxy held by the
\* signature object wraps a non-null context that was begun and whose kind
\* is the one it was created with; while the proxy is unreleased that
\* context is live; no context that was never begun is wrapped by any
\* proxy object.
NoHalfConstructedProxy ==
    /\ sigContext # NULL
           => /\ recs[sigContext].object
              /\ recs[sigContext].ctxt # NULL
              /\ ctxs[recs[sigContext].ctxt].begun
              /\ ctxs[recs[sigContext].ctxt].type = recs[sigContext].type
              /\ recs[sigContext].state = "live"
                     => ctxs[recs[sigContext].ctxt].state \in {"begun", "ended"}
    /\ \A p \in 1..Len(recs) :
           recs[p].object => recs[p].ctxt # NULL /\ ctxs[recs[p].ctxt].begun

\* Witness of C10: a create call has just stored its proxy.
ProxyStoredReached ==
    /\ ret.op \in InitOps
    /\ ret.proxy # NULL
    /\ sigContext = ret.proxy
    /\ ctxs[recs[sigContext].ctxt].state = "begun"

\* The live proxy records that hold context c / arena a.
CtxtOwners(c) == {p \in 1..Len(recs) : recs[p].state = "live" /\ recs[p].ctxt = c}
ArenaOwners(a) ==
    {p \in 1..Len(recs) : recs[p].state = "live" /\ recs[p].arena = a}

\* The faults under which a create call gets as far as the wrap step.
ReachesWrap == WrapFaults \cup {"none", "setField"}

\* C11: single ownership.  Every live context and every live arena is held
\* by exactly one live proxy record and by no factory local; when the wrap
\* step of a create call has returned, on success or failure, the factory's
\* context and arena references are null, and on success the proxy record
\* holds the context and the arena the call made.
SingleOwnership ==
    /\ \A c \in 1..Len(ctxs) :
           ctxs[c].state # "destroyed"
               => /\ Cardinality(CtxtOwners(c)) = 1
                  /\ ret.op \in InitOps => ret.localCtxt # c
    /\ \A a \in 1..Len(arenas) :
           arenas[a].state = "live"
               => /\ Cardinality(ArenaOwners(a)) = 1
                  /\ ret.op \in InitOps => ret.localArena # a
    /\ (ret.op \in InitOps /\ ret.fault \in ReachesWrap)
           => /\ ret.localCtxt = NULL
              /\ ret.localArena = NULL
              /\ ret.proxy # NULL
                     => /\ recs[ret.proxy].ctxt = ret.ctxt
                        /\ recs[ret.proxy].arena = ret.arena
                        /\ CtxtOwners(ret.ctxt) = {ret.proxy}

\* Witness of C11: an RSA-PSS create succeeded; the record holds the live
\* context and the live arena, the factory's references are null.
OwnershipTransferred ==
    /\ ret.op \in InitOps
    /\ ret.fault = "none"
    /\ ret.proxy # NULL
    /\ ret.arena # NULL
    /\ arenas[ret.arena].state = "live"
    /\ ArenaOwners(ret.arena) = {ret.proxy}
    /\ CtxtOwners(ret.ctxt) = {ret.proxy}
    /\ ret.localCtxt = NULL /\ ret.localArena = NULL

\* The proxy the last call looked up is an unreleased proxy of the kind.
LookedUpLive(kind) ==
    /\ ret.proxy # NULL
    /\ recs[ret.proxy].state = "live"
    /\ recs[ret.proxy].type = kind

\* C12: engineSignNative called on a signature object whose proxy wraps a
\* verification context fails with a SignatureException, returns no array,
\* and the verification context never reaches SGN_End.
SignOnVerifyRejected ==
    (/\ ret.op = "engineSignNative"
     /\ ret.fault \notin {"getField", "getPtr"}
     /\ LookedUpLive(VFY_CONTEXT))
        => /\ exc = SIGNATURE_EXCEPTION
           /\ ret.sigArray = NoArray
           /\ ret.ctxt = NULL
           /\ ~ret.wrongType

\* C13: engineVerifyNative called on a signature object whose proxy wraps a
\* signing context raises a SignatureException, returns false, and the
\* signing context never reaches VFY_EndWithSignature.
VerifyOnSignRejected ==
    (ret.op = "engineVerifyNative" /\ LookedUpLive(SGN_CONTEXT))
        => /\ exc = SIGNATURE_EXCEPTION
           /\ ~ret.verified
           /\ ret.ctxt = NULL
           /\ ret.native = "none"
           /\ ~ret.wrongType

\* Witness of C13: a verify whose lookup succeeded on a live signing proxy
\* and that was turned away with no injected failure.
VerifyOnSignReached ==
    /\ ret.op = "engineVerifyNative"
    /\ ret.fault = "none"
    /\ ret.got
    /\ LookedUpLive(SGN_CONTEXT)
    /\ ctxs[recs[ret.proxy].ctxt].state = "begun"
    /\ exc = SIGNATURE_EXCEPTION

\* C14: error propagation is never silent.  When a create call returns
\* with no exception pending, the signature object holds the proxy that call
\* made, and that proxy owns a begun context; put the other way, a create
\* call that leaves no such proxy in the signature object has raised an
\* exception.
CreateNeverSilent ==
    (ret.op \in InitOps /\ exc = NoException)
        => /\ sigContext # NULL
           /\ sigContext = ret.proxy
           /\ recs[sigContext].state = "live"
           /\ recs[sigContext].ctxt # NULL
           /\ ctxs[recs[sigContext].ctxt].state = "begun"

\* C15: streaming equivalence.  For every message m and split point k the
\* context fed update(m[0:k]) then update(m[k:]) has accumulated the same
\* bytes as the context fed update(m), and engineSignNative returns the
\* same signature for both; every native update goes to SGN_Update when
\* the proxy's kind is SGN_CONTEXT and to VFY_Update otherwise, and the
\* context it is handed is of that kind.
StreamingEquivalence ==
    /\ stream.phase \in {"fedSplit", "signedSplit"}
           => stream.split = stream.whole
    /\ stream.phase = "signedSplit" => stream.splitSig = stream.wholeSig
    /\ (ret.op = "engineUpdateNative" /\ ret.fed)
           => /\ ret.updater = IF recs[ret.proxy].type = SGN_CONTEXT
                               THEN "SGN_Update" ELSE "VFY_Update"
              /\ ret.updater = IF ctxs[ret.ctxt].type = SGN_CONTEXT
                               THEN "SGN_Update" ELSE "VFY_Update"

\* Witness of C15: a two-byte message with distinct bytes, split in the
\* middle, was signed both ways.
SplitMessageSigned ==
    /\ stream.phase = "signedSplit"
    /\ stream.m = <<0, 1>>
    /\ stream.k = 1
    /\ stream.whole = <<0, 1>>
    /\ stream.split = <<0, 1>>
    /\ \E a \in AlgSnapshots : stream.wholeSig = SignatureUnder(a, <<0, 1>>)
    /\ stream.splitSig = stream.wholeSig

\* C16: the configuration is a snapshot taken at creation.  Of two runs
\* of create, update, finalize on the same inputs, the second with the
\* signature object's algorithm or digest changed after create returned,
\* every call of the second run that met the same injected failures as the
\* first has the same outcome: the same exception, the same accumulated
\* bytes, the same signature array, the same verdict.
ConfigurationIsSnapshot ==
    \A i \in 1..Len(stream.two) :
        (\A j \in 1..i : stream.one[j].fault = stream.two[j].fault)
            => stream.two[i] = stream.one[i]

\* Witness of C16: both runs signed a two-byte message, and when the second
\* finalized, the signature object named another algorithm than the one
\* its context was created with.
ConfigurationChangedReached ==
    /\ stream.phase = "done2"
    /\ stream.kind = SGN_CONTEXT
    /\ stream.m = <<0, 1>>
    /\ algorithm # ctxs[recs[sigContext].ctxt].alg.sig
    /\ stream.two[2].sigArray # NoArray
    /\ stream.two[2].exc = NoException
    /\ stream.two = stream.one

\* Nothing was destroyed or freed by the step.
NothingReleased ==
    /\ arenas' = arenas
    /\ recs' = recs
    /\ sigContext' = sigContext
    /\ Len(ctxs') = Len(ctxs)
    /\ \A c \in 1..Len(ctxs) :
           /\ ctxs'[c].destroys = ctxs[c].destroys
           /\ (ctxs'[c].state = "destroyed") = (ctxs[c].state = "destroyed")

\* The step is a call of update, sign or verify on an unreleased proxy that
\* ends with an exception.
FailingCall ==
    /\ sigContext # NULL
    /\ recs[sigContext].state = "live"
    /\ ret'.op \in GetOps
    /\ exc' # NoException

\* The step is a release of the unreleased proxy on which the last call, an
\* update, sign or verify, ended with an exception.
ReleaseAfterFailure ==
    /\ ret.op \in GetOps
    /\ exc # NoException
    /\ ret.proxy # NULL
    /\ recs[ret.proxy].state = "live"
    /\ ret'.op = "releaseNativeResources"
    /\ ret'.fault = "none"
    /\ ret'.proxy = ret.proxy

\* C17: a failed update or finalize releases and destroys nothing, the
\* proxy record still holds the same context and arena; and a release that
\* follows it destroys the context once, frees the arena once and frees
\* the record once.
FailureKeepsOwnership ==
    [][/\ FailingCall => NothingReleased
       /\ ReleaseAfterFailure
              => /\ ctxs'[recs[ret.proxy].ctxt].state = "destroyed"
                 /\ ctxs'[recs[ret.proxy].ctxt].destroys = 1
                 /\ recs[ret.proxy].arena # NULL
                        => /\ arenas'[recs[ret.proxy].arena].state = "freed"
                           /\ arenas'[recs[ret.proxy].arena].frees = 1
                 /\ recs'[ret.proxy].state = "freed"
                 /\ recs'[ret.proxy].frees = 1]_vars

\* Witness of C17: the native update or the native sign-finalize has just
\* failed on a context created under RSA-PSS; the proxy record still holds
\* the context and the arena, both live.
NativeFailureReached ==
    /\ ret.op \in GetOps
    /\ ret.fault \in {"update", "end"}
    /\ exc = SIGNATURE_EXCEPTION
    /\ ret.proxy # NULL
    /\ recs[ret.proxy].state = "live"
    /\ ctxs[recs[ret.proxy].ctxt].state = "begun"
    /\ ctxs[recs[ret.proxy].ctxt].destroys = 0
    /\ recs[ret.proxy].arena # NULL
    /\ arenas[recs[ret.proxy].arena].state = "live"

\* The injected failures that are failures to allocate or to marshal a
\* buffer or a reference, by entry point.
AllocFaults ==
    [initSigContext |-> {"arena", "pssAlloc"} \cup WrapFaults,
     initVfyContext |-> {"arena", "pssAlloc"} \cup WrapFaults,
     engineUpdateNative |-> EarlyFaults,
     engineSignNative |-> {"getField", "getPtr", "toByteArray"},
     engineVerifyNative |-> EarlyFaults,
     engineRawSignNative |-> RawSignAllocFaults \cup {"toByteArray"},
     engineRawVerifyNative |-> {"sigItem", "hashItem"}]

\* C18: allocation failure is fatal to the call.  In every entry point a
\* failed allocation or marshalling step ends the call with an exception
\* raised and nothing returned, and no native cryptographic call is made
\* with the buffer that is missing.
AllocationFailureIsFatal ==
    (ret.op \in DOMAIN AllocFaults /\ ret.fault \in AllocFaults[ret.op])
        => /\ exc # NoException
           /\ ~ret.nullBuffer
           /\ ~ret.fed
           /\ ret.sigArray = NoArray
           /\ ~ret.verified
           /\ ret.op \in InitOps => ret.proxy = NULL
           /\ ret.fault # "toByteArray" => ret.native = "none"

PlaceholderKeyDiscarded ==
    ret.op = "initVfyContext"
        => /\ ret.privk # NULL => ret.keyDestroys = 1
           /\ ret.privk = NULL => ret.keyDestroys = 0
           /\ (algorithm = SEC_OID_PKCS1_RSA_PSS_SIGNATURE
               /\ ret.fault \notin {"key", "tempKey"}) => ret.privk # NULL
           /\ algorithm # SEC_OID_PKCS1_RSA_PSS_SIGNATURE => ret.privk = NULL
           /\ ret.ctxt # NULL => /\ ctxs[ret.ctxt].key = "pubk"
                                 /\ ctxs[ret.ctxt].type = VFY_CONTEXT

\* Witness of C20: a verification context was created under RSA-PSS and
\* wrapped; the placeholder pair was made and destroyed.
PlaceholderUsedReached ==
    /\ ret.op = "initVfyContext"
    /\ algorithm = SEC_OID_PKCS1_RSA_PSS_SIGNATURE
    /\ ret.fault = "none"
    /\ ret.proxy # NULL
    /\ ret.privk # NULL
    /\ ret.keyDestroys = 1
    /\ ctxs[ret.ctxt].key = "pubk"
    /\ ctxs[ret.ctxt].arena # NULL

\* C21: failure discipline of the RSA-PSS parameter builder.  Whichever
\* way getRSAPSSParamsAndSigningAlg fails in a create call (the AlgorithmID
\* cannot be allocated, the parameters cannot be made, the AlgorithmID
\* cannot be set), the call ends with a TokenException, the factory's
\* signAlg is still unset, no context was created, and the arena was freed.
PssFailureDiscipline ==
    (ret.op \in InitOps /\ ret.fault \in PssFaults)
        => /\ exc = TOKEN_EXCEPTION
           /\ ret.signAlg = NoAlgorithmID
           /\ ret.ctxt = NULL
           /\ ret.proxy = NULL
           /\ ret.arena # NULL
           /\ arenas[ret.arena].state = "freed"
           /\ arenas[ret.arena].frees = 1

\* C22: the signature buffer of engineSignNative.  The buffer SGN_End
\* allocates is freed exactly once before the call returns whenever SGN_End
\* produced one, the exit on a failed copy into the byte array included; no
\* buffer is freed when SGN_End failed or when the context lookup failed.
SignatureBufferFreedOnce ==
    ret.op = "engineSignNative"
        => /\ ret.bufMade => ret.bufFrees = 1
           /\ ~ret.bufMade => ret.bufFrees = 0
           /\ (ret.got /\ ret.native = SECSuccess) => ret.bufMade
           /\ ret.native = SECFailure => ~ret.bufMade /\ ret.bufFrees = 0
           /\ ~ret.got => ~ret.bufMade /\ ret.bufFrees = 0

\* Witness of C22: SGN_End produced a signature and the copy into the byte
\* array failed; the buffer was freed on the way out.
CopyFailureReached ==
    /\ ret.op = "engineSignNative"
    /\ ret.fault = "toByteArray"
    /\ ret.native = SECSuccess
    /\ ret.bufMade
    /\ ret.bufFrees = 1
    /\ ret.sigArray = NoArray
    /\ exc = OUT_OF_MEMORY_ERROR

\* The proxy objects whose record is live and holds context c.
ProxiesOf(c) ==
    {p \in 1..Len(recs') :
        recs'[p].object /\ recs'[p].state = "live" /\ recs'[p].ctxt = c}

\* C23: re-initialisation leaves the previous context alone.  A create call
\* made on a signature object that already holds a proxy changes no proxy
\* record, no context and no arena that existed before the call; when it
\* succeeds, the signature object holds the new proxy, which wraps a context
\* made by this call; and no context is held by two proxies.
ReinitKeepsPrevious ==
    [][(ret'.op \in InitOps /\ sigContext # NULL)
          => /\ \A p \in 1..Len(recs) : recs'[p] = recs[p]
             /\ \A c \in 1..Len(ctxs) : ctxs'[c] = ctxs[c]
             /\ \A a \in 1..Len(arenas) : arenas'[a] = arenas[a]
             /\ ret'.fault = "none"
                    => /\ sigContext' = ret'.proxy
                       /\ sigContext' > Len(recs)
                       /\ recs'[sigContext'].ctxt > Len(ctxs)
             /\ sigContext' \in {sigContext, ret'.proxy}
             /\ \A c \in 1..Len(ctxs') : Cardinality(ProxiesOf(c)) <= 1]_vars

\* Witness of C23: the signature object holds the proxy a create call has
\* just made, while the proxy it held before, through which bytes had been
\* fed, is still live with its context begun.
ReinitReached ==
    /\ ret.op \in InitOps
    /\ ret.fault = "none"
    /\ sigContext = ret.proxy
    /\ \E p \in 1..Len(recs) :
           /\ p # sigContext
           /\ recs[p].object
           /\ recs[p].state = "live"
           /\ ctxs[recs[p].ctxt].state = "begun"
           /\ ctxs[recs[p].ctxt].acc # <<>>
           /\ recs[p].arena # NULL
           /\ arenas[recs[p].arena].state = "live"

====
